---- MODULE Spec2Model ----
(***************************************************************************)
(* GCNLayer (graph convolution forward pass) and DistillationLoss, as      *)
(* state machines.  Tensor entries are exact numbers: a finite value is    *)
(* sum_t c[t]*sqrt(t) / den over square-free t (so d ** -0.5 is exact),    *)
(* and the IEEE specials inf, -inf and nan are kept apart, with IEEE       *)
(* arithmetic on them (0 * inf = nan, inf - inf = nan, relu(nan) = nan).   *)
(***************************************************************************)
EXTENDS Integers, Sequences, FiniteSets, TLC

\* ---- bounds ----
MaxN == 2
MaxSteps == 1

\* ---- exact arithmetic on tensor entries ----
Abs(n) == IF n < 0 THEN -n ELSE n

RECURSIVE Gcd(_, _)
Gcd(a, b) == IF b = 0 THEN Abs(a) ELSE Gcd(b, a % b)

RECURSIVE SumOver(_, _)
SumOver(S, f) ==
    IF S = {} THEN 0
    ELSE LET e == CHOOSE e \in S : TRUE IN f[e] + SumOver(S \ {e}, f)

RECURSIVE GcdOver(_, _)
GcdOver(S, f) ==
    IF S = {} THEN 0
    ELSE LET e == CHOOSE e \in S : TRUE IN Gcd(f[e], GcdOver(S \ {e}, f))

SquarePart(n) == CHOOSE s \in 1..n : n % (s * s) = 0 /\ \A u \in (s + 1)..n : n % (u * u) # 0

\* the function t |-> c[t] \div g on S, stored by value
RECURSIVE Quotients(_, _, _)
Quotients(S, c, g) ==
    IF S = {} THEN <<>>
    ELSE LET t == CHOOSE t \in S : TRUE IN (t :> (c[t] \div g)) @@ Quotients(S \ {t}, c, g)

Normal(c, den) ==
    LET nz == {t \in DOMAIN c : c[t] # 0}
        g  == Gcd(GcdOver(nz, c), den)
    IN  [k |-> "fin", c |-> Quotients(nz, c, g), den |-> den \div g]

Zero == [k |-> "fin", c |-> <<>>, den |-> 1]
Inf  == [k |-> "inf", c |-> <<>>, den |-> 1]
NInf == [k |-> "ninf", c |-> <<>>, den |-> 1]
NaN  == [k |-> "nan", c |-> <<>>, den |-> 1]
Rat(n, d) == Normal([t \in {1} |-> n], d)
Int2F(n) == Rat(n, 1)

RECURSIVE IsqrtIn(_, _, _)
IsqrtIn(n, lo, hi) ==
    IF lo >= hi THEN lo
    ELSE LET mid == (lo + hi + 1) \div 2
         IN IF mid * mid <= n THEN IsqrtIn(n, mid, hi) ELSE IsqrtIn(n, lo, mid - 1)
Isqrt(n) == IsqrtIn(n, 0, IF n < 46340 THEN n ELSE 46340)

RECURSIVE SignAt(_, _)
SignAt(c, K) ==
    LET lo(t) == Isqrt(t * K * K)
        hi(t) == IF lo(t) * lo(t) = t * K * K THEN lo(t) ELSE lo(t) + 1
        L == SumOver(DOMAIN c, [t \in DOMAIN c |-> IF c[t] > 0 THEN c[t] * lo(t) ELSE c[t] * hi(t)])
        U == SumOver(DOMAIN c, [t \in DOMAIN c |-> IF c[t] > 0 THEN c[t] * hi(t) ELSE c[t] * lo(t)])
    IN  IF L > 0 THEN 1 ELSE IF U < 0 THEN -1 ELSE SignAt(c, K * 10)

Sign(x) ==
    IF DOMAIN x.c = {} THEN 0
    ELSE IF \A t \in DOMAIN x.c : x.c[t] > 0 THEN 1
    ELSE IF \A t \in DOMAIN x.c : x.c[t] < 0 THEN -1
    ELSE SignAt(x.c, 10)

FinAdd(x, y) ==
    LET dom == DOMAIN x.c \cup DOMAIN y.c
        cx(t) == IF t \in DOMAIN x.c THEN x.c[t] ELSE 0
        cy(t) == IF t \in DOMAIN y.c THEN y.c[t] ELSE 0
    IN  Normal([t \in dom |-> cx(t) * y.den + cy(t) * x.den], x.den * y.den)

FinMul(x, y) ==
    LET pairs == (DOMAIN x.c) \X (DOMAIN y.c)
        g(p)  == Gcd(p[1], p[2])
        rad(p) == (p[1] \div g(p)) * (p[2] \div g(p))
        dom == {rad(p) : p \in pairs}
        term == [p \in pairs |-> x.c[p[1]] * y.c[p[2]] * g(p)]
    IN  Normal([u \in dom |-> SumOver({p \in pairs : rad(p) = u}, term)], x.den * y.den)

add(x, y) ==
    CASE x.k = "nan" \/ y.k = "nan" -> NaN
      [] x.k = "fin" /\ y.k = "fin" -> IF x = Zero THEN y ELSE IF y = Zero THEN x ELSE FinAdd(x, y)
      [] x.k = "fin" -> y
      [] y.k = "fin" -> x
      [] x.k = y.k -> x
      [] OTHER -> NaN

mul(x, y) ==
    LET sgn(z) == CASE z.k = "inf" -> 1 [] z.k = "ninf" -> -1 [] OTHER -> Sign(z)
    IN  CASE x.k = "nan" \/ y.k = "nan" -> NaN
          [] x.k = "fin" /\ y.k = "fin" -> IF x = Zero \/ y = Zero THEN Zero ELSE FinMul(x, y)
          [] sgn(x) * sgn(y) = 0 -> NaN
          [] sgn(x) * sgn(y) > 0 -> Inf
          [] OTHER -> NInf

\* faulty variant: a zero degree is guarded (0 ** -0.5 taken as 0)
pow_neg_half_guarded(x) ==
    CASE x.k # "fin" -> NaN
      [] x = Zero -> Zero
      [] OTHER -> LET n == x.c[1]
                      m == n * x.den
                      s == SquarePart(m)
                  IN  Normal([t \in {m \div (s * s)} |-> s], n)

\* x ** -0.5 for one entry; a finite x is a rational here (a sum of entries of A)
pow_neg_half(x) ==
    CASE x.k = "nan" -> NaN
      [] x.k = "inf" -> Zero
      [] x.k = "ninf" -> Zero
      [] x = Zero -> Inf
      [] Sign(x) < 0 -> NaN
      [] OTHER ->
           \* x = n/d (rational): 1/sqrt(n/d) = sqrt(n*d)/n
           LET n == x.c[1]
               m == n * x.den
               s == SquarePart(m)
           IN  Normal([t \in {m \div (s * s)} |-> s], n)


\* ---- tensors: a matrix is a sequence of rows, a 1-D tensor a sequence ----
Rows(M) == Len(M)
Cols(M) == Len(M[1])
Min(a, b) == IF a < b THEN a ELSE b

\* a tensor is stored by value: its entries are computed once, when it is made
RECURSIVE Stored(_, _)
Stored(f, n) == IF n = 0 THEN <<>> ELSE Append(Stored(f, n - 1), f[n])
RECURSIVE StoredRows(_, _, _)
StoredRows(M, R, C) ==
    IF R = 0 THEN <<>> ELSE Append(StoredRows(M, R - 1, C), Stored(M[R], C))
Tensor(R, C, M) == StoredRows(M, R, C)

RECURSIVE SumSeq(_)
SumSeq(s) == IF s = <<>> THEN Zero ELSE add(SumSeq(SubSeq(s, 1, Len(s) - 1)), s[Len(s)])

eye(n) == Tensor(n, n, [i \in 1..n |-> [j \in 1..n |-> IF i = j THEN Int2F(1) ELSE Zero]])
ones(n, m) == Tensor(n, m, [i \in 1..n |-> [j \in 1..m |-> Int2F(1)]])

\* torch's broadcasting rule for M + K on 2-D tensors
broadcastable(M, K) ==
    /\ (Rows(M) = Rows(K) \/ Rows(M) = 1 \/ Rows(K) = 1)
    /\ (Cols(M) = Cols(K) \/ Cols(M) = 1 \/ Cols(K) = 1)

tensor_add(M, K) ==
    LET R == IF Rows(M) = 1 THEN Rows(K) ELSE Rows(M)
        C == IF Cols(M) = 1 THEN Cols(K) ELSE Cols(M)
        at(T, i, j) == T[IF Rows(T) = 1 THEN 1 ELSE i][IF Cols(T) = 1 THEN 1 ELSE j]
    IN  Tensor(R, C, [i \in 1..R |-> [j \in 1..C |-> add(at(M, i, j), at(K, i, j))]])

matmul_ok(M, K) == Cols(M) = Rows(K)

matmul(M, K) ==
    Tensor(Rows(M), Cols(K), [i \in 1..Rows(M) |-> [j \in 1..Cols(K) |->
        SumSeq(Stored([l \in 1..Cols(M) |-> mul(M[i][l], K[l][j])], Cols(M)))]])

diag(M) == Stored([i \in 1..Min(Rows(M), Cols(M)) |-> M[i][i]], Min(Rows(M), Cols(M)))
diag_embed(v) == Tensor(Len(v), Len(v), [i \in 1..Len(v) |-> [j \in 1..Len(v) |-> IF i = j THEN v[i] ELSE Zero]])
pow(M) == Tensor(Rows(M), Cols(M), [i \in 1..Rows(M) |-> [j \in 1..Cols(M) |-> pow_neg_half(M[i][j])]])

\* faulty variant: no rectification
relu_entry_id(x) == x
relu_entry(x) ==
    CASE x.k = "nan" -> NaN
      [] x.k = "inf" -> Inf
      [] x.k = "ninf" -> Zero
      [] OTHER -> IF Sign(x) > 0 THEN x ELSE Zero
relu(M) == Tensor(Rows(M), Cols(M), [i \in 1..Rows(M) |-> [j \in 1..Cols(M) |-> relu_entry(M[i][j])]])

\* ---- inputs ----
AVals == {0, 1}
RandVals == {Zero, Rat(1, 2)}
OutputDims == {1, 2}
ExampleA == <<<<1, 0, 0>>, <<0, 1, 1>>, <<0, 1, 1>>>>
ExampleX == <<<<1, 2, 3>>, <<4, 5, 6>>, <<7, 8, 9>>>>

ToTensor(M) == [i \in 1..Len(M) |-> [j \in 1..Len(M[1]) |-> Int2F(M[i][j])]]
IntMatrices(R, C, V) == [1..R -> [1..C -> V]]

Adjacencies ==
    {ToTensor(M) : M \in UNION {IntMatrices(R, C, AVals) : R \in 1..MaxN, C \in 1..MaxN}}
        \cup {ToTensor(ExampleA)}
InputDims == 1..MaxN \cup {Rows(ExampleA)}

\* torch.rand(n, m), entries in [0, 1): the draws modelled are the constant matrices
Rand(n, m) == {[i \in 1..n |-> [j \in 1..m |-> r]] : r \in RandVals}

\* feature matrices: the pattern 1, 2, 3, ... (ExampleX when 3 x 3); the square ones
\* also negated, with alternating row signs, and all zero
FeatureDims == 1..MaxN \cup {Rows(ExampleX)}
Pattern(R, C, s) == [i \in 1..R |-> [j \in 1..C |-> Int2F(s[i] * ((i - 1) * C + j))]]
RowSigns(R) ==
    {[i \in 1..R |-> 1], [i \in 1..R |-> -1], [i \in 1..R |-> 0],
     [i \in 1..R |-> IF i % 2 = 1 THEN 1 ELSE -1]}
Features ==
    UNION {IF R = C
           THEN {Pattern(R, C, s) : s \in RowSigns(R)}
           ELSE {Pattern(R, C, [i \in 1..R |-> 1])} :
           R \in FeatureDims, C \in FeatureDims}

\* the update modelled, -lr * grad: -1 and +1 in a checkerboard
Grad(n, m) == Tensor(n, m, [i \in 1..n |-> [j \in 1..m |-> Int2F(IF (i + j) % 2 = 0 THEN -1 ELSE 1)]])

\* DistillationLoss: temperatures, trade-offs, and the values of the two library losses
Temperatures == {1, 2, 3}
Alphas == {Zero, Rat(1, 2), Int2F(1)}
LossVals == {Zero, Rat(1, 2), Int2F(1), Int2F(2)}

VARIABLES pc, input_dim, output_dim, A, A_hat, D, D_neg_sqrt, W, X, H, fwd, steps,
          temperature, alpha, soft_loss, hard_loss, loss

gcn_fields == <<input_dim, output_dim, A, A_hat, D, D_neg_sqrt, W>>
gcn == <<pc, gcn_fields, X, H, fwd, steps>>
kd == <<temperature, alpha, soft_loss, hard_loss, loss>>
vars == <<gcn, kd>>

Init ==
    /\ pc = "new"
    /\ input_dim = 0 /\ output_dim = 0
    /\ A = <<>> /\ A_hat = <<>> /\ D = <<>> /\ D_neg_sqrt = <<>> /\ W = <<>>
    /\ X = <<>> /\ H = <<>> /\ fwd = "none" /\ steps = 0
    /\ temperature = 0 /\ alpha = Zero /\ soft_loss = Zero /\ hard_loss = Zero /\ loss = Zero

\* ---- GCNLayer.__init__ ----
\* faulty variant: the self-loops are left out
init_A_hat_noloop(Ain) == Ain
init_A_hat(Ain) == tensor_add(Ain, eye(Rows(Ain)))
\* faulty variant: the degree is taken from A + I, as in the textbook normalisation
init_D_from_A_hat(Ain, idim) ==
    LET Ah == tensor_add(Ain, eye(Rows(Ain)))
    IN  diag_embed(diag(matmul(Ah, ones(Cols(Ah), idim))))
\* faulty variant: the degree is the column sum
init_D_colsum(Ain, idim) == diag_embed(diag(matmul(ones(idim, Rows(Ain)), Ain)))
init_D(Ain, idim) == diag_embed(diag(matmul(Ain, ones(idim, idim))))
init_D_neg_sqrt(Dm) == diag_embed(diag(pow(Dm)))

\* the first tensor operation of __init__ whose shapes do not fit raises
init_raises(idim, Ain) ==
    \/ ~broadcastable(Ain, eye(Rows(Ain)))
    \/ ~matmul_ok(Ain, ones(idim, idim))

GCNLayer_init(idim, odim, Ain, W0) ==
    /\ pc = "new"
    /\ IF init_raises(idim, Ain)
       THEN /\ pc' = "raised"
            /\ UNCHANGED <<input_dim, output_dim, A, A_hat, D, D_neg_sqrt, W>>
       ELSE /\ pc' = "ready"
            /\ input_dim' = idim
            /\ output_dim' = odim
            /\ A' = Ain
            /\ A_hat' = init_A_hat(Ain)
            /\ D' = init_D(Ain, idim)
            /\ D_neg_sqrt' = init_D_neg_sqrt(init_D(Ain, idim))
            /\ W' = W0
    /\ UNCHANGED <<X, H, fwd, steps, kd>>

\* ---- GCNLayer.forward ----
support_1(Dn, Ah) == matmul(Dn, matmul(Ah, Dn))
\* faulty variant: the projection by W is left out
support_2_noW(s1, Xin, Wm) == matmul(s1, Xin)
support_2(s1, Xin, Wm) == matmul(s1, matmul(Xin, Wm))

\* faulty variant: a feature matrix with too many rows is let through
forward_raises_lax(Dn, Ah, Wm, Xin) ==
    \/ ~matmul_ok(Ah, Dn)
    \/ Cols(Dn) # Rows(Ah)
    \/ ~matmul_ok(Xin, Wm)
    \/ Cols(Dn) > Rows(Xin)

forward_raises(Dn, Ah, Wm, Xin) ==
    \/ ~matmul_ok(Ah, Dn)
    \/ Cols(Dn) # Rows(Ah)
    \/ ~matmul_ok(Xin, Wm)
    \/ Cols(Dn) # Rows(Xin)

\* faulty variant: forward stores the normalised adjacency back into A_hat
forward_inplace(Xin) ==
    /\ pc = "ready"
    /\ fwd = "none"
    /\ X' = Xin
    /\ IF forward_raises(D_neg_sqrt, A_hat, W, Xin)
       THEN fwd' = "raised" /\ H' = <<>> /\ A_hat' = A_hat
       ELSE fwd' = "returned"
            /\ H' = relu(support_2(support_1(D_neg_sqrt, A_hat), Xin, W))
            /\ A_hat' = support_1(D_neg_sqrt, A_hat)
    /\ UNCHANGED <<pc, input_dim, output_dim, A, D, D_neg_sqrt, W, steps, kd>>

forward(Xin) ==
    /\ pc = "ready"
    /\ fwd = "none"
    /\ X' = Xin
    /\ IF forward_raises(D_neg_sqrt, A_hat, W, Xin)
       THEN fwd' = "raised" /\ H' = <<>>
       ELSE fwd' = "returned"
            /\ H' = relu(support_2(support_1(D_neg_sqrt, A_hat), Xin, W))
    /\ UNCHANGED <<pc, input_dim, output_dim, A, A_hat, D, D_neg_sqrt, W, steps, kd>>

\* the caller drops the result of a call before the next one
release ==
    /\ pc = "ready"
    /\ fwd # "none"
    /\ X' = <<>> /\ H' = <<>> /\ fwd' = "none"
    /\ UNCHANGED <<pc, input_dim, output_dim, A, A_hat, D, D_neg_sqrt, W, steps, kd>>

\* ---- an optimizer's update of the parameter W, between two calls of forward ----
optimizer_step ==
    /\ pc = "ready"
    /\ fwd = "none"
    /\ steps < MaxSteps
    /\ W' = tensor_add(W, Grad(Rows(W), Cols(W)))
    /\ steps' = steps + 1
    /\ UNCHANGED <<pc, input_dim, output_dim, A, A_hat, D, D_neg_sqrt, X, H, fwd, kd>>

\* gcn_layer = GCNLayer(input_dim, output_dim, A)
construct_layer ==
    /\ pc = "new"
    /\ \E idim \in InputDims, odim \in OutputDims, Ain \in Adjacencies :
         \E W0 \in Rand(idim, odim) : GCNLayer_init(idim, odim, Ain, W0)

\* output = gcn_layer(X)
call_layer ==
    /\ pc = "ready"
    /\ \E Xin \in Features : forward(Xin)

Next ==
    \/ construct_layer
    \/ call_layer
    \/ release
    \/ optimizer_step

Spec == Init /\ [][Next]_vars

\* ---- DistillationLoss ----
DistillationLoss_init(T, a) ==
    /\ pc = "new"
    /\ pc' = "loss_ready"
    /\ temperature' = T
    /\ alpha' = a
    /\ UNCHANGED <<input_dim, output_dim, A, A_hat, D, D_neg_sqrt, W, X, H, fwd, steps,
                   soft_loss, hard_loss, loss>>

\* return self.alpha * soft_loss + (1 - self.alpha) * hard_loss
distillation_loss(a, T, soft, hard) ==
    add(mul(a, soft), mul(add(Int2F(1), mul(Int2F(-1), a)), hard))

\* soft = kl_loss(log_softmax(student / T), softmax(teacher / T)), hard = ce_loss(student, labels)
DistillationLoss_forward(soft, hard) ==
    /\ pc \in {"loss_ready", "loss_done"}
    /\ pc' = "loss_done"
    /\ soft_loss' = soft
    /\ hard_loss' = hard
    /\ loss' = distillation_loss(alpha, temperature, soft, hard)
    /\ UNCHANGED <<gcn_fields, X, H, fwd, steps, temperature, alpha>>

\* loss_fn = DistillationLoss(temperature, alpha)
construct_loss ==
    /\ pc = "new"
    /\ \E T \in Temperatures, a \in Alphas : DistillationLoss_init(T, a)

\* loss = loss_fn(student_logits, teacher_logits, labels)
call_loss ==
    /\ pc # "new"
    /\ \E soft \in LossVals, hard \in LossVals : DistillationLoss_forward(soft, hard)

NextDistill ==
    \/ construct_loss
    \/ call_loss

SpecDistill == Init /\ [][NextDistill]_vars

\* ---- the claims ----
IntOf(x) == IF x = Zero THEN 0 ELSE x.c[1]
RowSum(M, i) == SumOver(1..Cols(M), [j \in 1..Cols(M) |-> IntOf(M[i][j])])
OffDiagSum(M, i) == RowSum(M, i) - IntOf(M[i][i])
Square(M) == Rows(M) = Cols(M)
Built == pc = "ready" /\ Square(A)
Returned == Built /\ fwd = "returned"
ShapeOK == Rows(X) = Rows(A) /\ Cols(X) = input_dim
AllDegreesPositive == \A i \in 1..Rows(A) : RowSum(A, i) > 0
Finite(x) == x.k = "fin"
NonNeg(x) == x.k = "inf" \/ (x.k = "fin" /\ Sign(x) >= 0)
Scale(n, M) == Tensor(Rows(M), Cols(M), [i \in 1..Rows(M) |-> [j \in 1..Cols(M) |-> mul(Int2F(n), M[i][j])]])

\* S_ij = A_hat_ij / sqrt(d_i * d_j), d the row sums of A
S_closed(M) ==
    Tensor(Rows(M), Rows(M), [i \in 1..Rows(M) |-> [j \in 1..Rows(M) |->
        mul(Int2F(IntOf(M[i][j]) + (IF i = j THEN 1 ELSE 0)),
            pow_neg_half(Int2F(RowSum(M, i) * RowSum(M, j))))]])
ExampleS ==
    <<<<Int2F(2), Zero, Zero>>, <<Zero, Int2F(1), Rat(1, 2)>>, <<Zero, Rat(1, 2), Int2F(1)>>>>

\* C1: with all row sums of A positive, forward returns ReLU(S (X W)), where
\* S_ij = (A + I)_ij / sqrt(d_i d_j) and d_i is the row sum of A (not of A + I);
\* for the example adjacency S = [[2,0,0],[0,1,1/2],[0,1/2,1]].
C1_ForwardIsNormalisedConvolution ==
    (Returned /\ AllDegreesPositive) =>
        /\ A_hat = [i \in 1..Rows(A) |-> [j \in 1..Rows(A) |->
                       Int2F(IntOf(A[i][j]) + (IF i = j THEN 1 ELSE 0))]]
        /\ D_neg_sqrt = [i \in 1..Rows(A) |-> [j \in 1..Rows(A) |->
                            IF i = j THEN pow_neg_half(Int2F(RowSum(A, i))) ELSE Zero]]
        /\ support_1(D_neg_sqrt, A_hat) = S_closed(A)
        /\ H = relu(matmul(S_closed(A), matmul(X, W)))
        /\ (A = ToTensor(ExampleA) => support_1(D_neg_sqrt, A_hat) = ExampleS)
C1_Witness ==
    /\ Returned
    /\ A = ToTensor(ExampleA) /\ X = ToTensor(ExampleX)
    /\ \E i \in 1..Rows(H) : \E j \in 1..output_dim : H[i][j] # Zero

\* C2: on a layer built from an N x N adjacency, the output of forward is N x output_dim.
C2_OutputShape ==
    Returned => /\ Rows(H) = Rows(A)
                /\ \A i \in 1..Rows(H) : Len(H[i]) = output_dim
C2_Witness == Returned /\ output_dim # input_dim /\ Rows(H) = Rows(ExampleA)

C4_Original == pc = "ready" => (Square(A) /\ input_dim = Rows(A))

\* C5: on a layer built from an N x N adjacency, forward raises and returns nothing when
\* X has not N rows or not input_dim columns, and returns otherwise.
C5_ForwardShapeError ==
    (Built /\ fwd # "none") =>
        IF ShapeOK THEN fwd = "returned" ELSE fwd = "raised" /\ H = <<>>
C5_Witness ==
    Built /\ fwd = "raised" /\ Rows(X) > Rows(A) /\ Cols(X) = input_dim

\* C6 as stated: with a zero row sum at node i, construction and forward do not raise,
\* D_neg_sqrt_ii is not finite and row i of the output has an entry that is not finite.
C6_Original ==
    (Built /\ fwd # "none" /\ ShapeOK /\ ~AllDegreesPositive) =>
        /\ fwd = "returned"
        /\ \A i \in 1..Rows(A) : RowSum(A, i) = 0 =>
               /\ ~Finite(D_neg_sqrt[i][i])
               /\ \E j \in 1..output_dim : ~Finite(H[i][j])
\* C6 amended: with a zero row sum at node i, construction and forward do not raise and
\* D_neg_sqrt_ii is +inf; for N >= 2 every entry of the output is nan; for N = 1 the
\* entry is +inf where X W > 0, nan where X W = 0 and 0 where X W < 0.
C6_ZeroDegreeOutput ==
    (Built /\ fwd # "none" /\ ShapeOK /\ ~AllDegreesPositive) =>
        /\ fwd = "returned"
        /\ \A i \in 1..Rows(A) : RowSum(A, i) = 0 => D_neg_sqrt[i][i] = Inf
        /\ IF Rows(A) >= 2
           THEN \A i \in 1..Rows(H) : \A j \in 1..output_dim : H[i][j] = NaN
           ELSE \A j \in 1..output_dim :
                    LET p == Sign(matmul(X, W)[1][j])
                    IN  H[1][j] = (IF p > 0 THEN Inf ELSE IF p = 0 THEN NaN ELSE Zero)
C6_Witness ==
    /\ Returned /\ ShapeOK /\ Rows(A) >= 2
    /\ \E i \in 1..Rows(A) : RowSum(A, i) = 0 /\ H[i][1] = NaN

\* C7: once the layer is constructed, no call changes A, A_hat, D or D_neg_sqrt, a call
\* of forward leaves W unchanged, and W changes only in an optimizer step.
C7_Frame ==
    [][pc = "ready" =>
          /\ A' = A /\ A_hat' = A_hat /\ D' = D /\ D_neg_sqrt' = D_neg_sqrt
          /\ ((fwd = "none" /\ fwd' # "none") => W' = W)
          /\ (W' # W => steps' = steps + 1)]_vars
C7_Witness == Returned /\ steps > 0 /\ A_hat # support_1(D_neg_sqrt, A_hat)

\* C8: for A the identity, every degree is 1, D_neg_sqrt is the identity, A_hat = 2 I and
\* forward returns ReLU(2 X W).
C8_IdentityAdjacency ==
    (Built /\ A = eye(Rows(A))) =>
        /\ D = eye(Rows(A))
        /\ D_neg_sqrt = eye(Rows(A))
        /\ A_hat = Scale(2, eye(Rows(A)))
        /\ (fwd = "returned" => H = relu(Scale(2, matmul(X, W))))
C8_Witness ==
    /\ Returned /\ A = eye(Rows(A)) /\ Rows(A) >= 2
    /\ \E i \in 1..Rows(H) : \E j \in 1..output_dim : H[i][j] # Zero

\* the layer's own S_ii, and S_ii of the layer built from A with the self-loop at i toggled
S_of(M) == support_1(init_D_neg_sqrt(init_D(M, Rows(M))), init_A_hat(M))
Toggled(M, i) == [M EXCEPT ![i][i] = Int2F(1 - IntOf(M[i][i]))]
S_own(i) == support_1(D_neg_sqrt, A_hat)[i][i]
S_toggled(i) == S_of(Toggled(A, i))[i][i]

C10_Original ==
    pc = "loss_done" =>
        loss = add(mul(add(Int2F(1), mul(Int2F(-1), alpha)), hard_loss),
                   mul(mul(alpha, Int2F(temperature * temperature)), soft_loss))
====
